---- MODULE Spec2Model ----
(***************************************************************************)
(* Arbitrary-precision arithmetic on digit vectors (Karatsuba.py: add,      *)
(* subtract, multiply) and the greedy Egyptian-fraction decomposition       *)
(* (EgyptianFractions.py).  The Python sources are Python 2: "/" on         *)
(* integers is floor division.                                              *)
(***************************************************************************)
EXTENDS Integers, Sequences, FiniteSets, TLC

VARIABLES
    base,       \* the radix handed to the call
    lhs,        \* the caller's first list (its contents, as the caller sees them)
    rhs,        \* the caller's second list
    argL,       \* the contents of lhs when the call was made
    argR,       \* the contents of rhs when the call was made
    op,         \* which function the caller called: "none", "add", "subtract", "multiply"
    pc,         \* "ready" before the call, "done" after it
    outcome,    \* "none", "returned" or "AssertionError"
    result,     \* the list the call returned (<<>> when it raised)
    buf,        \* the padded local copy of lhs as subtract left it (<<>> otherwise)
    overrun,    \* the top-level subtract's borrow loop ended by j > length
    cross,      \* one record per cross-term subtraction made inside multiply
    given,      \* the Fraction handed to greedyEgyptianFraction
    rational,   \* its local variable rational: [num, den] in lowest terms
    fractions,  \* its local list result
    epc,        \* "idle", "check", "loop", "returned" or "raised"
    classElems, \* the list bound to the class attribute RandomBag._elems
    created,    \* the RandomBag instances made so far
    bcall,      \* the last RandomBag call: [kind, bag, value, raised]
    cx,         \* the lhs of the multiply call the recursion is in
    cy,         \* its rhs
    via,        \* how that call was made: "caller", "p0", "p1" or "p2"
    plen,       \* the padded length in the call that made it (0 for the caller)
    mpc         \* "idle", "call", "split", "base" or "raised"

kvars == <<base, lhs, rhs, argL, argR, op, pc, outcome, result, buf, overrun, cross>>

evars == <<given, rational, fractions, epc>>

bvars == <<classElems, created, bcall>>

mvars == <<cx, cy, via, plen, mpc>>

vars == <<kvars, evars, bvars, mvars>>

(***************************************************************************)
(* Bounds of the model.                                                     *)
(***************************************************************************)
\* every digit vector up to this length over EnumDigits is an input
MaxLen == 2
\* the patterned vectors (all b-1, 1 then zeros, ...) go up to this length
MaxPatLen == 8
\* the Fractions handed to greedyEgyptianFraction have denominators up to this
MaxDen == 12
\* RandomBag instances made, and elements held at once
MaxBags == 2
MaxElems == 3

Bases == {2, 10, 16, 256}

\* the digits the exhaustive inputs are built from: the smallest two and the largest
EnumDigits(b) == {0, 1, b - 1}

RECURSIVE SeqsOfLen(_, _)
SeqsOfLen(S, n) ==
    IF n = 0 THEN {<<>>}
    ELSE {Append(s, d) : s \in SeqsOfLen(S, n - 1), d \in S}

PatternKinds == {"max", "pow", "one", "alt", "mix"}

Pattern(kind, n, b) ==
    [i \in 1..n |->
        CASE kind = "max" -> b - 1
          [] kind = "pow" -> IF i = 1 THEN 1 ELSE 0
          [] kind = "one" -> IF i = n THEN 1 ELSE 0
          [] kind = "alt" -> IF i % 2 = 1 THEN b - 1 ELSE 0
          [] kind = "mix" -> (i * i + 1) % b]

\* exhaustive: every vector of length 0..MaxLen over EnumDigits
ShortVectors(b) == UNION {SeqsOfLen(EnumDigits(b), n) : n \in 0..MaxLen}

\* patterned: lengths MaxLen+1..MaxPatLen
LongVectors(b) == {Pattern(k, n, b) : k \in PatternKinds, n \in (MaxLen + 1)..MaxPatLen}

TinyVectors(b) == {v \in ShortVectors(b) : Len(v) <= 1}

\* the operand pairs a caller hands over: all short pairs, long pairs of equal
\* length or one digit apart, and a long operand against an empty or
\* one-digit one (either side)
InputPairs(b) ==
    (ShortVectors(b) \X ShortVectors(b))
    \cup {p \in LongVectors(b) \X LongVectors(b) : Len(p[1]) - Len(p[2]) \in {0, 1}}
    \cup (LongVectors(b) \X TinyVectors(b))
    \cup (TinyVectors(b) \X LongVectors(b))

(***************************************************************************)
(* Python list helpers.                                                     *)
(***************************************************************************)
Max(a, b) == IF a >= b THEN a ELSE b

\* [0 for i in range(k)]
Zeros(k) == [i \in 1..k |-> 0]

\* [0 for i in range(len(v), length)] + v
PadLeft(v, length) == Zeros(length - Len(v)) \o v

\* list.reverse()
Reverse(s) == [i \in 1..Len(s) |-> s[Len(s) - i + 1]]

\* v[-i]
FromEnd(v, i) == v[Len(v) - i + 1]

(***************************************************************************)
(* add                                                                      *)
(***************************************************************************)
\* the column written out without the mod
ColumnDigitNoModMut(column, b) == column

ColumnDigit(column, b) == column % b

ColumnCarry(column, b) == column \div b

\* the carry appended whether or not it is zero
AppendCarryAlwaysMut(res, carry) == Append(res, carry)

\* the final carry forgotten
AppendCarryDropMut(res, carry) == res

\* if carry != 0: result.append(carry)
AppendCarry(res, carry) == IF carry # 0 THEN Append(res, carry) ELSE res

RECURSIVE AddLoop(_, _, _, _, _, _)
AddLoop(l, r, i, carry, res, b) ==
    IF i > Len(l) THEN AppendCarry(res, carry)
    ELSE LET column == FromEnd(l, i) + FromEnd(r, i) + carry
         IN  AddLoop(l, r, i + 1, ColumnCarry(column, b),
                     Append(res, ColumnDigit(column, b)), b)

Add(x, y, b) ==
    LET length == Max(Len(x), Len(y))
        l == PadLeft(x, length)
        r == PadLeft(y, length)
    IN  Reverse(AddLoop(l, r, 1, 0, <<>>, b))

(***************************************************************************)
(* subtract                                                                 *)
(***************************************************************************)
\* the while loop of the borrow: padded is the padded local copy of lhs
RECURSIVE BorrowWalk(_, _, _, _)

\* a borrow that decrements the next digit and never walks further
BorrowOnceMut(padded, j, length, b) ==
    IF j > length THEN [buf |-> padded, overrun |-> TRUE]
    ELSE LET k == Len(padded) - j + 1
         IN  [buf |-> [padded EXCEPT ![k] = (padded[k] + (b - 1)) % b],
              overrun |-> FALSE]

\* a borrow walk whose test is inverted: it stops on the digit that wrapped
BorrowStopOnWrapMut(padded, j, length, b) ==
    IF j > length THEN [buf |-> padded, overrun |-> TRUE]
    ELSE LET k  == Len(padded) - j + 1
             d  == (padded[k] + (b - 1)) % b
             nb == [padded EXCEPT ![k] = d]
         IN  IF d = b - 1 THEN [buf |-> nb, overrun |-> FALSE]
             ELSE BorrowWalk(nb, j + 1, length, b)

BorrowWalk(padded, j, length, b) ==
    IF j > length THEN [buf |-> padded, overrun |-> TRUE]
    ELSE LET k  == Len(padded) - j + 1
             d  == (padded[k] + (b - 1)) % b
             nb == [padded EXCEPT ![k] = d]
         IN  IF d # b - 1 THEN [buf |-> nb, overrun |-> FALSE]
             ELSE BorrowWalk(nb, j + 1, length, b)

RECURSIVE SubtractLoop(_, _, _, _, _, _)
SubtractLoop(l, r, i, res, over, b) ==
    IF i > Len(l) THEN [result |-> res, buf |-> l, overrun |-> over]
    ELSE LET difference == FromEnd(l, i) - FromEnd(r, i)
         IN  IF difference >= 0
             THEN SubtractLoop(l, r, i + 1, Append(res, difference), over, b)
             ELSE LET w == BorrowWalk(l, i + 1, Len(l), b)
                  IN  SubtractLoop(w.buf, r, i + 1, Append(res, difference + b),
                                   over \/ w.overrun, b)

\* the whole call: the returned list, the final contents of the padded
\* buffer, and whether a borrow walk ran past the most significant digit
SubtractRun(x, y, b) ==
    LET length == Max(Len(x), Len(y))
        l == PadLeft(x, length)
        r == PadLeft(y, length)
        loop == SubtractLoop(l, r, 1, <<>>, FALSE, b)
    IN  [result |-> Reverse(loop.result), buf |-> loop.buf, overrun |-> loop.overrun]

Subtract(x, y, b) == SubtractRun(x, y, b).result

\* a pad that is skipped when nothing is to be prepended, leaving the local
\* name bound to the caller's list
PadAliasesMut(v, length) == Len(v) = length

\* "lhs = [0 ...] + lhs" rebinds the local name to a new list: list
\* concatenation never hands back its operand, not even for an empty pad
PadAliases(v, length) == FALSE

(***************************************************************************)
(* multiply                                                                 *)
(***************************************************************************)
\* the assertion with "or" for "and"
AssertEitherMut(x, y) == Len(x) > 0 \/ Len(y) > 0

\* assert len(lhs) > 0 and len(rhs) > 0
AssertNonEmpty(x, y) == Len(x) > 0 /\ Len(y) > 0

\* the base case always handing back two digits
BaseCaseTwoDigitsMut(a, c, b) == <<(a * c) \div b, (a * c) % b>>

\* the base case losing the high digit
BaseCaseLowDigitMut(a, c, b) == <<(a * c) % b>>

\* return [result] if result < base else [result / base, result % base]
BaseCase(a, c, b) ==
    LET product == a * c
    IN  IF product < b THEN <<product>> ELSE <<product \div b, product % b>>

SplitHigh(length) == (length + 1) \div 2

\* the low half's length rounded up like the high half's
SplitLowCeilMut(length) == (length + 1) \div 2

SplitLow(length) == length \div 2

\* v + [0 for i in range(0, k)]
ShiftLeft(v, k) == v \o Zeros(k)

RECURSIVE MultiplyRun(_, _, _)
MultiplyRun(x, y, b) ==
    IF ~AssertNonEmpty(x, y) THEN [raised |-> TRUE, result |-> <<>>, cross |-> {}]
    ELSE
    LET length == Max(Len(x), Len(y))
        l == PadLeft(x, length)
        r == PadLeft(y, length)
    IN  IF length = 1
        THEN [raised |-> FALSE, result |-> BaseCase(l[1], r[1], b), cross |-> {}]
        ELSE
        LET m0 == SplitHigh(length)
            m1 == SplitLow(length)
            x0 == SubSeq(l, 1, m0)
            x1 == SubSeq(l, m0 + 1, length)
            y0 == SubSeq(r, 1, m0)
            y1 == SubSeq(r, m0 + 1, length)
            r0 == MultiplyRun(x0, y0, b)
            sx == Add(x0, x1, b)
            sy == Add(y0, y1, b)
            r1 == MultiplyRun(sx, sy, b)
            r2 == MultiplyRun(x1, y1, b)
            p0 == r0.result
            p1 == r1.result
            p2 == r2.result
            z0 == p0
            sum == Add(p0, p2, b)
            sub == SubtractRun(p1, sum, b)
            z1 == sub.result
            z2 == p2
            z0prod == ShiftLeft(z0, 2 * m1)
            z1prod == ShiftLeft(z1, m1)
            z2prod == z2
            partial == Add(z0prod, z1prod, b)
        IN  IF r0.raised \/ r1.raised \/ r2.raised
            THEN [raised |-> TRUE, result |-> <<>>, cross |-> {}]
            ELSE [raised |-> FALSE,
                  result |-> Add(partial, z2prod, b),
                  cross  |-> r0.cross \cup r1.cross \cup r2.cross \cup
                             {[x0 |-> x0, x1 |-> x1, y0 |-> y0, y1 |-> y1,
                               sx |-> sx, sy |-> sy,
                               p0 |-> p0, p1 |-> p1, p2 |-> p2, sum |-> sum, z1 |-> z1,
                               buf |-> sub.buf, overrun |-> sub.overrun,
                               z0prod |-> z0prod, z1prod |-> z1prod,
                               partial |-> partial]}]

Multiply(x, y, b) == MultiplyRun(x, y, b).result

NoCall == [kind |-> "none", bag |-> 0, value |-> 0, raised |-> FALSE]

(***************************************************************************)
(* The caller: two lists and a base, then one call.                         *)
(***************************************************************************)
Init ==
    /\ base \in Bases
    /\ \E p \in InputPairs(base) : lhs = p[1] /\ rhs = p[2]
    /\ argL = lhs
    /\ argR = rhs
    /\ op = "none"
    /\ pc = "ready"
    /\ outcome = "none"
    /\ result = <<>>
    /\ buf = <<>>
    /\ overrun = FALSE
    /\ cross = {}
    /\ given = [num |-> 0, den |-> 1]
    /\ rational = given
    /\ fractions = <<>>
    /\ epc = "idle"
    /\ classElems = <<>>
    /\ created = {}
    /\ bcall = NoCall
    /\ cx = <<>>
    /\ cy = <<>>
    /\ via = "caller"
    /\ plen = 0
    /\ mpc = "idle"

CallAdd ==
    /\ pc = "ready"
    /\ op' = "add"
    /\ result' = Add(lhs, rhs, base)
    /\ outcome' = "returned"
    /\ pc' = "done"
    /\ UNCHANGED <<base, lhs, rhs, argL, argR, buf, overrun, cross, evars, bvars, mvars>>

CallSubtract ==
    /\ pc = "ready"
    /\ LET run == SubtractRun(lhs, rhs, base)
           length == Max(Len(lhs), Len(rhs))
       IN  /\ result' = run.result
           /\ buf' = run.buf
           /\ overrun' = run.overrun
           /\ lhs' = IF PadAliases(lhs, length) THEN run.buf ELSE lhs
    /\ op' = "subtract"
    /\ outcome' = "returned"
    /\ pc' = "done"
    /\ UNCHANGED <<base, rhs, argL, argR, cross, evars, bvars, mvars>>

CallMultiply ==
    /\ pc = "ready"
    /\ LET run == MultiplyRun(lhs, rhs, base)
       IN  /\ result' = run.result
           /\ cross' = run.cross
           /\ outcome' = IF run.raised THEN "AssertionError" ELSE "returned"
    /\ op' = "multiply"
    /\ pc' = "done"
    /\ UNCHANGED <<base, lhs, rhs, argL, argR, buf, overrun, evars, bvars, mvars>>

Next == CallAdd \/ CallSubtract \/ CallMultiply

Spec == Init /\ [][Next]_vars

(***************************************************************************)
(* greedyEgyptianFraction (EgyptianFractions.py), on fractions.Fraction    *)
(* values: a Fraction is kept in lowest terms with a positive denominator.  *)
(***************************************************************************)
Abs(n) == IF n < 0 THEN -n ELSE n

RECURSIVE GCD(_, _)
GCD(a, b) == IF b = 0 THEN a ELSE GCD(b, a % b)

\* Fraction(n, d), d > 0: reduced by the greatest common divisor
Fraction(n, d) ==
    LET g == GCD(Abs(n), d)
    IN  [num |-> n \div g, den |-> d \div g]

\* Fraction.__sub__
FractionSub(a, b) == Fraction(a.num * b.den - b.num * a.den, a.den * b.den)

\* rational <= 0 or rational >= 1
OutOfRange(r) == r.num <= 0 \/ r.num >= r.den

\* a unit fraction that forgets the + 1
UnitFractionFloorMut(r) == Fraction(1, r.den \div r.num)

\* Fraction(1, rational.denominator / rational.numerator + 1)
UnitFraction(r) == Fraction(1, r.den \div r.num + 1)

\* the arguments: every Fraction n/d with d up to MaxDen, from below 0 to above 1
Fractions == {Fraction(n, d) : n \in (-1)..(MaxDen + 1), d \in 1..MaxDen}

EgyptInit ==
    /\ given \in Fractions
    /\ rational = given
    /\ fractions = <<>>
    /\ epc = "check"
    /\ base = 2
    /\ lhs = <<>>
    /\ rhs = <<>>
    /\ argL = <<>>
    /\ argR = <<>>
    /\ op = "none"
    /\ pc = "idle"
    /\ outcome = "none"
    /\ result = <<>>
    /\ buf = <<>>
    /\ overrun = FALSE
    /\ cross = {}
    /\ classElems = <<>>
    /\ created = {}
    /\ bcall = NoCall
    /\ cx = <<>>
    /\ cy = <<>>
    /\ via = "caller"
    /\ plen = 0
    /\ mpc = "idle"

\* the sanity check, then result = []
EgyptCheck ==
    /\ epc = "check"
    /\ epc' = IF OutOfRange(rational) THEN "raised" ELSE "loop"
    /\ UNCHANGED <<given, rational, fractions, kvars, bvars, mvars>>

\* if rational.numerator == 1: result.append(rational); return result
EgyptReturn ==
    /\ epc = "loop"
    /\ rational.num = 1
    /\ fractions' = Append(fractions, rational)
    /\ epc' = "returned"
    /\ UNCHANGED <<given, rational, kvars, bvars, mvars>>

\* one more turn of the loop: append the unit fraction and subtract it
EgyptStep ==
    /\ epc = "loop"
    /\ rational.num # 1
    /\ LET unitFraction == UnitFraction(rational)
       IN  /\ fractions' = Append(fractions, unitFraction)
           /\ rational' = FractionSub(rational, unitFraction)
    /\ UNCHANGED <<given, epc, kvars, bvars, mvars>>

EgyptNext == EgyptCheck \/ EgyptReturn \/ EgyptStep

\* the loop is sequential code: it keeps running until it returns or raises
EgyptSpec == EgyptInit /\ [][EgyptNext]_vars /\ WF_vars(EgyptNext)

(***************************************************************************)
(* RandomBag (RandomBag.py).  The class body binds _elems to one list;     *)
(* there is no __init__, so no instance ever gets an _elems of its own and  *)
(* self._elems is found on the class.                                       *)
(***************************************************************************)
BagIds == 1..MaxBags

BagValues == {"a", "b"}

\* self._elems for instance b: the attribute lookup falls through to the class
ElemsOf(b) == classElems

\* len(self)
BagLen(b) == Len(ElemsOf(b))

\* self._elems[-1], self._elems[i] = self._elems[i], self._elems[-1]  (i from 0)
SwapToEnd(elems, i) ==
    [elems EXCEPT ![Len(elems)] = elems[i + 1], ![i + 1] = elems[Len(elems)]]

BagInit ==
    /\ classElems = <<>>
    /\ created = {}
    /\ bcall = NoCall
    /\ cx = <<>>
    /\ cy = <<>>
    /\ via = "caller"
    /\ plen = 0
    /\ mpc = "idle"
    /\ given = [num |-> 0, den |-> 1]
    /\ rational = given
    /\ fractions = <<>>
    /\ epc = "idle"
    /\ base = 2
    /\ lhs = <<>>
    /\ rhs = <<>>
    /\ argL = <<>>
    /\ argR = <<>>
    /\ op = "none"
    /\ pc = "idle"
    /\ outcome = "none"
    /\ result = <<>>
    /\ buf = <<>>
    /\ overrun = FALSE
    /\ cross = {}

\* RandomBag(): a new instance; the class defines no constructor
BagCreate ==
    /\ \E b \in BagIds \ created :
          /\ created' = created \cup {b}
          /\ bcall' = [kind |-> "create", bag |-> b, value |-> 0, raised |-> FALSE]
    /\ UNCHANGED <<classElems, kvars, evars, mvars>>

\* insert(self, value)
BagInsert ==
    /\ Len(classElems) < MaxElems
    /\ \E b \in created, v \in BagValues :
          /\ classElems' = Append(ElemsOf(b), v)
          /\ bcall' = [kind |-> "insert", bag |-> b, value |-> v, raised |-> FALSE]
    /\ UNCHANGED <<created, kvars, evars, mvars>>

\* removeRandom(self): the assertion, then randint, the swap and the pop
BagRemoveRandom ==
    /\ \E b \in created :
          IF BagLen(b) = 0
          THEN /\ bcall' = [kind |-> "remove", bag |-> b, value |-> 0, raised |-> TRUE]
               /\ UNCHANGED classElems
          ELSE \E i \in 0..(BagLen(b) - 1) :
                  LET swapped == SwapToEnd(ElemsOf(b), i)
                  IN  /\ classElems' = SubSeq(swapped, 1, Len(swapped) - 1)
                      /\ bcall' = [kind |-> "remove", bag |-> b,
                                   value |-> swapped[Len(swapped)], raised |-> FALSE]
    /\ UNCHANGED <<created, kvars, evars, mvars>>

BagNext == BagCreate \/ BagInsert \/ BagRemoveRandom

BagSpec == BagInit /\ [][BagNext]_vars

(***************************************************************************)
(* The recursion of multiply, one call at a time: from the caller's call   *)
(* down any chain of the three recursive calls.                             *)
(***************************************************************************)
\* the operands of the recursive call that computes p0, p1 or p2
Operands(x, y, b, which) ==
    LET length == Max(Len(x), Len(y))
        l == PadLeft(x, length)
        r == PadLeft(y, length)
        m0 == SplitHigh(length)
        x0 == SubSeq(l, 1, m0)
        x1 == SubSeq(l, m0 + 1, length)
        y0 == SubSeq(r, 1, m0)
        y1 == SubSeq(r, m0 + 1, length)
    IN  CASE which = "p0" -> <<x0, y0>>
          [] which = "p1" -> <<Add(x0, x1, b), Add(y0, y1, b)>>
          [] which = "p2" -> <<x1, y1>>

MulInit ==
    /\ base \in Bases
    /\ \E p \in InputPairs(base) : cx = p[1] /\ cy = p[2]
    /\ via = "caller"
    /\ plen = 0
    /\ mpc = "call"
    /\ lhs = <<>>
    /\ rhs = <<>>
    /\ argL = <<>>
    /\ argR = <<>>
    /\ op = "none"
    /\ pc = "idle"
    /\ outcome = "none"
    /\ result = <<>>
    /\ buf = <<>>
    /\ overrun = FALSE
    /\ cross = {}
    /\ given = [num |-> 0, den |-> 1]
    /\ rational = given
    /\ fractions = <<>>
    /\ epc = "idle"
    /\ classElems = <<>>
    /\ created = {}
    /\ bcall = NoCall

\* the head of multiply: the assertion, the padding, the test length == 1
MulEnter ==
    /\ mpc = "call"
    /\ mpc' = IF ~AssertNonEmpty(cx, cy) THEN "raised"
              ELSE IF Max(Len(cx), Len(cy)) = 1 THEN "base"
              ELSE "split"
    /\ UNCHANGED <<cx, cy, via, plen, kvars, evars, bvars>>

\* one of the recursive calls multiply(x0, y0), multiply(add(x0, x1),
\* add(y0, y1)), multiply(x1, y1) is entered
MulRecurse ==
    /\ mpc = "split"
    /\ \E which \in {"p0", "p1", "p2"} :
          LET sub == Operands(cx, cy, base, which)
          IN  /\ cx' = sub[1]
              /\ cy' = sub[2]
              /\ via' = which
    /\ plen' = Max(Len(cx), Len(cy))
    /\ mpc' = "call"
    /\ UNCHANGED <<kvars, evars, bvars>>

MulNext == MulEnter \/ MulRecurse

\* a call that is made runs: the interpreter does not stop inside multiply
MulSpec == MulInit /\ [][MulNext]_vars /\ WF_vars(MulNext)

(***************************************************************************)
(* Reference arithmetic for the properties: integers where they fit in      *)
(* 31 bits, digit columns otherwise.                                        *)
(***************************************************************************)
RECURSIVE LogFloor(_, _)
LogFloor(limit, b) == IF limit < b THEN 0 ELSE 1 + LogFloor(limit \div b, b)

\* the longest vector in base b whose integer is below 2^31
FitLen(b) == LogFloor(2147483647, b)

RECURSIVE Value(_, _)
Value(v, b) ==
    IF Len(v) = 0 THEN 0
    ELSE Value(SubSeq(v, 1, Len(v) - 1), b) * b + v[Len(v)]

RECURSIVE Strip(_)
Strip(v) == IF Len(v) > 0 /\ v[1] = 0 THEN Strip(Tail(v)) ELSE v

\* the two vectors represent the same integer
SameInteger(u, v) == Strip(u) = Strip(v)

\* u < v as integers
Less(u, v) ==
    LET n == Max(Len(u), Len(v))
        a == Zeros(n - Len(u)) \o u
        c == Zeros(n - Len(v)) \o v
    IN  \E i \in 1..n : a[i] < c[i] /\ \A j \in 1..(i - 1) : a[j] = c[j]

\* no leading zero digit beyond the single digit of zero
Minimal(v) == Len(v) >= 1 /\ (Len(v) > 1 => v[1] # 0)

ValidDigits(v, b) == \A i \in 1..Len(v) : v[i] \in 0..(b - 1)

\* the digit of weight b^k (k = 0 is the last digit), 0 beyond the vector
DigitAt(v, k) == IF k < Len(v) THEN v[Len(v) - k] ELSE 0

\* column k of the long multiplication of x by y: the sum of x_i * y_(k-i)
RECURSIVE ColumnSum(_, _, _, _)
ColumnSum(x, y, k, i) ==
    IF i > k THEN 0
    ELSE DigitAt(x, i) * DigitAt(y, k - i) + ColumnSum(x, y, k, i + 1)

\* carries propagated through columns cols[1] (weight b^0), cols[2], ...:
\* the digits most significant first
RECURSIVE Propagate(_, _, _, _)
Propagate(cols, k, carry, b) ==
    IF k > Len(cols)
    THEN IF carry = 0 THEN <<>> ELSE Propagate(cols, k, carry \div b, b) \o <<carry % b>>
    ELSE Propagate(cols, k + 1, (cols[k] + carry) \div b, b) \o <<(cols[k] + carry) % b>>

\* grade-school long multiplication
Schoolbook(x, y, b) ==
    Propagate([k \in 1..(Len(x) + Len(y)) |-> ColumnSum(x, y, k - 1, 0)], 1, 0, b)

\* x0 * y1 + x1 * y0 by long multiplication
CrossProducts(x0, x1, y0, y1, b) ==
    Propagate([k \in 1..(Max(Len(x0), Len(x1)) + Max(Len(y0), Len(y1))) |->
                  ColumnSum(x0, y1, k - 1, 0) + ColumnSum(x1, y0, k - 1, 0)], 1, 0, b)

\* the carry into column i (1 = the last digit) of lhs + rhs
RECURSIVE CarryInto(_, _, _, _)
CarryInto(x, y, i, b) ==
    IF i = 1 THEN 0
    ELSE (DigitAt(x, i - 2) + DigitAt(y, i - 2) + CarryInto(x, y, i - 1, b)) \div b

Returned(f) == pc = "done" /\ op = f /\ outcome = "returned"

(***************************************************************************)
(* Properties.                                                              *)
(***************************************************************************)

\* C1: in every base of {2, 10, 16, 256} and for operands of length 1..8,
\* the integer multiply returns is the product long multiplication gives (and
\* the product of the two integers, where that fits in 31 bits).
C1_MultiplyIsSchoolbook ==
    (Returned("multiply") /\ Len(argL) >= 1 /\ Len(argR) >= 1) =>
        /\ SameInteger(result, Schoolbook(argL, argR, base))
        /\ (Len(argL) + Len(argR) <= FitLen(base) =>
                Value(result, base) = Value(argL, base) * Value(argR, base))

C1_Witness ==
    /\ Returned("multiply")
    /\ base = 256
    /\ Len(argL) = 8
    /\ Len(argR) = 7
    /\ Strip(result) # <<>>
    /\ Cardinality(cross) > 3

\* C2: for x >= y, add(subtract(x, y, b), y, b) is the integer x, and
\* subtract(x, y, b) is x - y, whatever the lengths and however far the
\* borrow walks.
C2_SubtractThenAdd ==
    (Returned("subtract") /\ ~Less(argL, argR)) =>
        /\ SameInteger(Add(result, argR, base), argL)
        /\ (Max(Len(argL), Len(argR)) <= FitLen(base) =>
                Value(result, base) = Value(argL, base) - Value(argR, base))

C2_Witness ==
    /\ Returned("subtract")
    /\ base = 16
    /\ argL = <<1, 0, 0, 0, 0>>
    /\ argR = <<15>>
    /\ buf = <<0, 15, 15, 15, 0>>
    /\ SameInteger(Add(result, argR, base), argL)

\* C3: add returns lhs + rhs most significant digit first: one digit per
\* column of the padded operands, each (lhs[i] + rhs[i] + carry) mod b, and
\* one more leading digit exactly when the last carry is not zero;
\* add([9,9,9], [1], 10) is [1,0,0,0].
C3_AddColumns ==
    Returned("add") =>
        LET n == Max(Len(argL), Len(argR))
            last == CarryInto(argL, argR, n + 1, base)
        IN  /\ Len(result) = IF last # 0 THEN n + 1 ELSE n
            /\ \A i \in 1..n :
                  FromEnd(result, i) =
                      (DigitAt(argL, i - 1) + DigitAt(argR, i - 1)
                          + CarryInto(argL, argR, i, base)) % base
            /\ (last # 0 => result[1] = last)
            /\ (n + 1 <= FitLen(base) =>
                    Value(result, base) = Value(argL, base) + Value(argR, base))
            /\ ((base = 10 /\ argL = <<9, 9, 9>> /\ argR = <<1>>) =>
                    result = <<1, 0, 0, 0>>)

C3_Witness ==
    /\ Returned("add")
    /\ base = 10
    /\ argL = <<9, 9, 9>>
    /\ argR = <<1>>
    /\ result = <<1, 0, 0, 0>>

\* C4 (as claimed): subtract called with lhs < rhs fails with an error and
\* returns no digit vector.
C4_SubtractRaisesWhenLess ==
    (pc = "done" /\ op = "subtract" /\ Less(argL, argR)) =>
        (outcome # "returned" /\ result = <<>>)

\* C5 (as claimed): the vector multiply returns has minimal length.
C5_MultiplyMinimal ==
    (Returned("multiply") /\ Len(argL) >= 1 /\ Len(argR) >= 1) => Minimal(result)

\* C5 (amended): multiply returns a non-empty vector of the product; it has
\* minimal length when both operands have one digit, and may otherwise carry
\* leading zero digits, since nothing trims the sum of the shifted terms.
C5_MultiplyBaseCaseMinimal ==
    (Returned("multiply") /\ Len(argL) >= 1 /\ Len(argR) >= 1) =>
        /\ Len(result) >= 1
        /\ SameInteger(result, Schoolbook(argL, argR, base))
        /\ ((Len(argL) = 1 /\ Len(argR) = 1) => Minimal(result))

C5_Witness ==
    /\ Returned("multiply")
    /\ base = 10
    /\ argL = <<1, 9>>
    /\ argR = <<1, 9>>
    /\ result = <<0, 3, 6, 1>>

\* C6 (as claimed): 1 followed by k zeros, minus [1], is the vector of k
\* digits b - 1.
C6_BorrowChainTrimmed ==
    (Returned("subtract") /\ Len(argL) >= 2
        /\ argL = Pattern("pow", Len(argL), base) /\ argR = <<1>>) =>
        result = Pattern("max", Len(argL) - 1, base)

\* C6 (amended): 1 followed by k zeros, minus [1], is a zero digit followed
\* by k digits b - 1 (the padded length is kept), and the borrow walk ends
\* on the leading 1 without running past it; subtract([1,0,0,0], [1], 10)
\* is [0,9,9,9].
C6_BorrowChainPadded ==
    (Returned("subtract") /\ Len(argL) >= 2
        /\ argL = Pattern("pow", Len(argL), base) /\ argR = <<1>>) =>
        /\ result = <<0>> \o Pattern("max", Len(argL) - 1, base)
        /\ ~overrun

C6_Witness ==
    /\ Returned("subtract")
    /\ base = 10
    /\ argL = <<1, 0, 0, 0>>
    /\ argR = <<1>>
    /\ result = <<0, 9, 9, 9>>

\* C7: multiply on an empty lhs or rhs raises the assertion error at once:
\* nothing is returned and no recursive step is taken.
C7_MultiplyRejectsEmpty ==
    (pc = "done" /\ op = "multiply" /\ (Len(argL) = 0 \/ Len(argR) = 0)) =>
        (outcome = "AssertionError" /\ result = <<>> /\ cross = {})

C7_Witness ==
    /\ pc = "done"
    /\ op = "multiply"
    /\ Len(argL) = 0
    /\ Len(argR) = MaxPatLen
    /\ outcome = "AssertionError"

C10_CrossTermNonNegative ==
    Returned("multiply") =>
        \A c \in cross :
            /\ ~Less(c.p1, c.sum)
            /\ ~c.overrun
            /\ SameInteger(c.z1, CrossProducts(c.x0, c.x1, c.y0, c.y1, base))

C10_Witness ==
    /\ Returned("multiply")
    /\ \E c \in cross : Len(c.p1) < Len(c.sum) /\ Strip(c.z1) # <<>>
    /\ \E c, d \in cross : Len(c.x0) > Len(d.x0)

\* the sum of the first n fractions of a list, in lowest terms
RECURSIVE SumFirst(_, _)
SumFirst(fs, n) ==
    IF n = 0 THEN [num |-> 0, den |-> 1]
    ELSE LET t == SumFirst(fs, n - 1)
             f == fs[n]
         IN  Fraction(t.num * f.den + f.num * t.den, t.den * f.den)

InUnitInterval(r) == 0 < r.num /\ r.num < r.den

\* what holds of the list and the remainder at every point of the loop
C9_LoopInvariant ==
    (InUnitInterval(given) /\ epc \in {"loop", "returned"}) =>
        /\ \A i \in 1..Len(fractions) : fractions[i].num = 1 /\ fractions[i].den >= 2
        /\ \A i, j \in 1..Len(fractions) : i # j => fractions[i] # fractions[j]
        /\ IF epc = "returned"
           THEN SumFirst(fractions, Len(fractions)) = given
           ELSE /\ InUnitInterval(rational)
                /\ LET t == SumFirst(fractions, Len(fractions))
                   IN  Fraction(t.num * rational.den + rational.num * t.den,
                                t.den * rational.den) = given

\* what one turn of the loop does
C9_LoopStep ==
    (epc = "loop" /\ epc' = "loop") =>
        /\ fractions' = Append(fractions,
                               [num |-> 1, den |-> rational.den \div rational.num + 1])
        /\ rational'.num < rational.num
        /\ rational'.num >= 1

\* C9: for a/b strictly between 0 and 1 greedyEgyptianFraction terminates
\* and returns pairwise distinct unit fractions whose sum is a/b; each turn
\* of the loop subtracts 1/(floor(b/a) + 1) and leaves a fraction in lowest
\* terms with a strictly smaller numerator.
C9_GreedyEgyptian ==
    /\ []C9_LoopInvariant
    /\ [][C9_LoopStep]_vars
    /\ (InUnitInterval(given) ~> (epc = "returned"))

C9_Witness ==
    /\ epc = "returned"
    /\ given = [num |-> 8, den |-> 11]
    /\ fractions = <<[num |-> 1, den |-> 2], [num |-> 1, den |-> 5],
                     [num |-> 1, den |-> 37], [num |-> 1, den |-> 4070]>>

\* C13 (as claimed): a call on one bag leaves the length and the elements of
\* every other bag as they were, and a bag is empty when it is created.
C13_BagsIndependent ==
    [][/\ \A b \in created : bcall'.bag # b => ElemsOf(b)' = ElemsOf(b)
       /\ \A b \in created' \ created : ElemsOf(b)' = <<>>]_vars

\* C11: every call of multiply on non-empty operands, the caller's or a
\* recursive one, is followed down every chain of recursive calls by the
\* length-1 base case, and never by a failed assertion; this includes the p1
\* call whose operands are as long as those of the call that makes it.
C11_MultiplyTerminates ==
    /\ (mpc = "call" /\ Len(cx) > 0 /\ Len(cy) > 0) ~> (mpc = "base")
    /\ [](mpc = "call" /\ via # "caller" => Len(cx) > 0 /\ Len(cy) > 0)
    /\ [][mpc' = "call" =>
            (Max(Len(cx'), Len(cy')) < plen' \/ (via' = "p1" /\ plen' <= 3))]_vars

\* base 2, [1,1,1] times itself: the p1 call gets add([1,1],[1]) = [1,0,0]
C11_Witness ==
    /\ mpc = "call"
    /\ base = 2
    /\ via = "p1"
    /\ plen = 3
    /\ cx = <<1, 0, 0>>
    /\ cy = <<1, 0, 0>>

\* a digit vector: at least one digit, every digit in [0, b)
ValidVector(v, b) == Len(v) >= 1 /\ ValidDigits(v, b)

\* C12: on digit vectors (length >= 1, digits in [0, base)), what add
\* returns, what subtract returns for lhs >= rhs, what multiply returns, and
\* every vector handed around inside multiply at any depth (the halves, the
\* pre-sums, p0, p1, p2, their sum, z1, the borrow walk's buffer, the shifted
\* terms and their partial sum) is a digit vector again.
C12_DigitVectorsThroughout ==
    (pc = "done" /\ outcome = "returned" /\ ValidVector(argL, base)
        /\ ValidVector(argR, base)) =>
        /\ (op = "add" => ValidVector(result, base))
        /\ ((op = "subtract" /\ ~Less(argL, argR)) =>
                ValidVector(result, base) /\ ValidVector(buf, base))
        /\ (op = "multiply" =>
                /\ ValidVector(result, base)
                /\ \A c \in cross :
                      \A v \in {c.x0, c.x1, c.y0, c.y1, c.sx, c.sy, c.p0, c.p1, c.p2,
                                c.sum, c.z1, c.buf, c.z0prod, c.z1prod, c.partial} :
                          ValidVector(v, base))

C12_Witness ==
    /\ Returned("multiply")
    /\ base = 16
    /\ Len(argL) = 5
    /\ ValidVector(result, base)
    /\ \E c \in cross : c.buf # c.p1 /\ Len(c.sx) > Len(c.x0) /\ c.z1 # c.p1

====
